---- MODULE Spec2Model ----
(***************************************************************************)
(* The system bus of the emulator: dispatch of memory-mapped accesses to   *)
(* the device models (Bus::do_mmio_read, Bus::do_mmio_write) and the       *)
(* cycle-indexed queue of deferred tasks (Bus::step, Bus::drain_tasks),    *)
(* from core/src/bus/mmio.rs.                                              *)
(*                                                                         *)
(* The bus is single-threaded: one call is in progress at a time.  pc is   *)
(* the position of that call.  A panic ends the process (pc = "panic").    *)
(* The device models and the task handlers live outside mmio.rs; what the  *)
(* bus asks of them is recorded in the log `calls`.                        *)
(***************************************************************************)
EXTENDS Integers, Sequences, FiniteSets, TLC

\* ------------------------------------------------------------------ bounds
\* step is not called once the cycle counter has reached MaxCycle
MaxCycle == 3
\* number of tasks created in one run (each gets a fresh identity)
MaxTasks == 3
\* largest delay with which a handler outside mmio.rs enqueues a task
MaxDelay == 2

\* ------------------------------------------------------------------ data
IoDevice ==
    {"Nand", "Aes", "Sha", "Ehci", "Ohci0", "Ohci1", "Sdhc0", "Sdhc1",
     "Hlwd", "Ahb", "Di", "Exi", "Mi", "Ddr"}

\* BusWidth::{B, H, W}
BusWidth == {"B", "H", "W"}

\* offsets, written values, task payloads and the cpu_cycle argument are
\* drawn from two-element sets
Offsets == {0, 4}
Values == {0, 1}
Payloads == {0, 1}
CpuCycles == {0, 7}

\* BusPacket::{Byte(u8), Half(u16), Word(u32)}
BusPacket == [tag : {"Byte", "Half", "Word"}, val : Values]

\* BusTask: Nand(x), Aes(x), Sha(x), Mi{kind, data}, SetRomDisabled(x),
\* SetMirrorEnabled(x)
BusTask ==
    [tag : {"Nand", "Aes", "Sha"}, x : Payloads]
        \cup [tag : {"Mi"}, kind : Payloads, data : Payloads]
        \cup [tag : {"SetRomDisabled", "SetMirrorEnabled"}, x : BOOLEAN]

\* Option::None
None == [tag |-> "None"]

\* ------------------------------------------------------------------ state
VARIABLES
    cycle,              \* Bus.cycle
    rom_disabled,       \* Bus.rom_disabled
    mirror_enabled,     \* Bus.mirror_enabled
    tasks,              \* Bus.tasks: Vec<Task>
    pc,                 \* position of the call in progress
    idx,                \* drain_tasks: the cursor
    op,                 \* the call in progress and its arguments
    pre,                \* the bus fields when that call was entered
    calls,              \* handlers outside mmio.rs invoked by that call
    fired,              \* entries removed and executed by that call
    nextId,             \* identities handed out so far
    done                \* identities of the entries executed so far

vars ==
    <<cycle, rom_disabled, mirror_enabled, tasks, pc, idx, op, pre, calls,
      fired, nextId, done>>

\* the fields of the bus that mmio.rs itself reads and writes, and the
\* number of tasks created
BusFields ==
    [cycle |-> cycle, rom_disabled |-> rom_disabled,
     mirror_enabled |-> mirror_enabled, tasks |-> tasks, nextId |-> nextId]

NoOp == [name |-> "none"]

Init ==
    /\ cycle = 0
    /\ rom_disabled = FALSE
    /\ mirror_enabled = FALSE
    /\ tasks = <<>>
    /\ pc = "idle"
    /\ idx = 0
    /\ op = NoOp
    /\ calls = <<>>
    /\ fired = <<>>
    /\ nextId = 0
    /\ done = {}
    /\ pre = BusFields

\* ------------------------------------------------------------------ dispatch
\* The device model each device id names, and the accesses that are defined:
\* what the dispatch is checked against.
ModelOf ==
    [Nand |-> "nand", Aes |-> "aes", Sha |-> "sha", Ehci |-> "ehci",
     Ohci0 |-> "ohci0", Ohci1 |-> "ohci1", Sdhc0 |-> "sd0", Sdhc1 |-> "sd1",
     Hlwd |-> "hlwd", Ahb |-> "hlwd.ahb", Di |-> "hlwd.di",
     Exi |-> "hlwd.exi", Mi |-> "hlwd.mi", Ddr |-> "hlwd.ddr"]

WordDevices ==
    {"Nand", "Aes", "Sha", "Ehci", "Ohci0", "Ohci1", "Sdhc0", "Sdhc1",
     "Hlwd", "Ahb", "Di", "Exi"}

HalfDevices == {"Mi", "Ddr"}

DefinedPair(width, dev) ==
    \/ width = "W" /\ dev \in WordDevices
    \/ width = "H" /\ dev \in HalfDevices

\* the width a packet carries
WidthOf(tag) ==
    CASE tag = "Byte" -> "B" [] tag = "Half" -> "H" [] tag = "Word" -> "W"

\* a read dispatch that matches on the device alone
ReadArmAnyWidth(width, dev) == ModelOf[dev]

\* the match of do_mmio_read: the device model a (width, dev) pair reaches
ReadArm(width, dev) ==
    CASE width = "W" /\ dev = "Nand" -> "nand"
      [] width = "W" /\ dev = "Aes" -> "aes"
      [] width = "W" /\ dev = "Sha" -> "sha"
      [] width = "W" /\ dev = "Ehci" -> "ehci"
      [] width = "W" /\ dev = "Ohci0" -> "ohci0"
      [] width = "W" /\ dev = "Ohci1" -> "ohci1"
      [] width = "W" /\ dev = "Sdhc0" -> "sd0"
      [] width = "W" /\ dev = "Sdhc1" -> "sd1"
      [] width = "W" /\ dev = "Hlwd" -> "hlwd"
      [] width = "W" /\ dev = "Ahb" -> "hlwd.ahb"
      [] width = "W" /\ dev = "Di" -> "hlwd.di"
      [] width = "W" /\ dev = "Exi" -> "hlwd.exi"
      [] width = "H" /\ dev = "Mi" -> "hlwd.mi"
      [] width = "H" /\ dev = "Ddr" -> "hlwd.ddr"
      [] OTHER -> "panic"

\* a write dispatch with the arms of Di and Exi exchanged
WriteArmSwapped(tag, dev) ==
    IF ~DefinedPair(WidthOf(tag), dev) THEN "panic"
    ELSE IF dev = "Di" THEN "hlwd.exi"
    ELSE IF dev = "Exi" THEN "hlwd.di"
    ELSE ModelOf[dev]

\* the match of do_mmio_write, on the tag of the packet and the device
WriteArm(tag, dev) ==
    CASE tag = "Word" /\ dev = "Nand" -> "nand"
      [] tag = "Word" /\ dev = "Aes" -> "aes"
      [] tag = "Word" /\ dev = "Sha" -> "sha"
      [] tag = "Word" /\ dev = "Ehci" -> "ehci"
      [] tag = "Word" /\ dev = "Ohci0" -> "ohci0"
      [] tag = "Word" /\ dev = "Ohci1" -> "ohci1"
      [] tag = "Word" /\ dev = "Sdhc0" -> "sd0"
      [] tag = "Word" /\ dev = "Sdhc1" -> "sd1"
      [] tag = "Word" /\ dev = "Hlwd" -> "hlwd"
      [] tag = "Word" /\ dev = "Ahb" -> "hlwd.ahb"
      [] tag = "Word" /\ dev = "Exi" -> "hlwd.exi"
      [] tag = "Word" /\ dev = "Di" -> "hlwd.di"
      [] tag = "Half" /\ dev = "Mi" -> "hlwd.mi"
      [] tag = "Half" /\ dev = "Ddr" -> "hlwd.ddr"
      [] OTHER -> "panic"

\* a delay of one cycle for the memory-interface event
DelayMi(t) == IF t.tag = "Mi" THEN 1 ELSE 0

\* the additional delay c of do_mmio_write, per task kind
Delay(t) ==
    CASE t.tag = "Nand" -> 0
      [] t.tag = "Aes" -> 0
      [] t.tag = "Sha" -> 0
      [] t.tag = "Mi" -> 0
      [] t.tag = "SetRomDisabled" -> 0
      [] t.tag = "SetMirrorEnabled" -> 0

\* Task { kind, target_cycle }, with the identity of the entry, the cycle
\* at which it was created, the code that pushed it ("write", "tick" for
\* handle_step_hlwd, "task" for a task handler, "again" for a handler that
\* pushed the task it was called for) and the identity of the task whose
\* handler pushed it (-1 if none)
Task(kind, target, by, parent) ==
    [kind |-> kind, target_cycle |-> target, id |-> nextId, born |-> cycle,
     by |-> by, parent |-> parent]

\* a task can still be created: identities are left, and its target cycle
\* is one at which step is still called
CanCreate(target) == nextId < MaxTasks /\ target < MaxCycle

\* fn do_mmio_read(&mut self, dev, off, width) -> BusPacket
do_mmio_read(dev, off, width) ==
    /\ pc = "idle"
    /\ op' = [name |-> "read", dev |-> dev, off |-> off, width |-> width]
    /\ pre' = BusFields
    /\ fired' = <<>>
    /\ LET arm == ReadArm(width, dev) IN
        IF arm = "panic"
        THEN /\ pc' = "panic"
             /\ calls' = <<>>
        ELSE /\ pc' = "ret"
             /\ calls' = <<[model |-> arm, fn |-> "read", off |-> off]>>
    /\ UNCHANGED <<cycle, rom_disabled, mirror_enabled, tasks, idx, nextId,
                   done>>

\* a write dispatch that carries out a reported flag task at once instead of
\* queueing it
do_mmio_write_flag_now(dev, off, msg, reply) ==
    /\ pc = "idle"
    /\ op' = [name |-> "write", dev |-> dev, off |-> off, msg |-> msg]
    /\ pre' = BusFields
    /\ fired' = <<>>
    /\ LET arm == WriteArm(msg.tag, dev)
           now == reply # None /\
                  reply.tag \in {"SetRomDisabled", "SetMirrorEnabled"}
       IN  IF arm = "panic"
           THEN /\ reply = None
                /\ pc' = "panic"
                /\ calls' = <<>>
                /\ UNCHANGED <<tasks, nextId, rom_disabled, mirror_enabled>>
           ELSE /\ pc' = "ret"
                /\ calls' = <<[model |-> arm, fn |-> "write", off |-> off,
                               val |-> msg.val, ret |-> reply]>>
                /\ IF reply # None /\ ~now
                   THEN /\ tasks' = Append(tasks,
                               Task(reply, cycle + Delay(reply), "write", -1))
                        /\ nextId' = nextId + 1
                   ELSE UNCHANGED <<tasks, nextId>>
                /\ rom_disabled' =
                        IF now /\ reply.tag = "SetRomDisabled" THEN reply.x
                        ELSE rom_disabled
                /\ mirror_enabled' =
                        IF now /\ reply.tag = "SetMirrorEnabled" THEN reply.x
                        ELSE mirror_enabled
    /\ UNCHANGED <<cycle, idx, done>>

\* fn do_mmio_write(&mut self, dev, off, msg); reply is what the device's
\* write returns
do_mmio_write(dev, off, msg, reply) ==
    /\ pc = "idle"
    /\ op' = [name |-> "write", dev |-> dev, off |-> off, msg |-> msg]
    /\ pre' = BusFields
    /\ fired' = <<>>
    /\ LET arm == WriteArm(msg.tag, dev) IN
        IF arm = "panic"
        THEN /\ reply = None
             /\ pc' = "panic"
             /\ calls' = <<>>
             /\ UNCHANGED <<tasks, nextId>>
        ELSE /\ pc' = "ret"
             /\ calls' = <<[model |-> arm, fn |-> "write", off |-> off,
                            val |-> msg.val, ret |-> reply]>>
             /\ IF reply # None
                THEN /\ tasks' = Append(tasks,
                            Task(reply, cycle + Delay(reply), "write", -1))
                     /\ nextId' = nextId + 1
                ELSE UNCHANGED <<tasks, nextId>>
    /\ UNCHANGED <<cycle, rom_disabled, mirror_enabled, idx, done>>

\* ------------------------------------------------------------------ step
\* what a handler outside mmio.rs (handle_step_hlwd, handle_task_nand,
\* handle_task_aes, handle_task_sha, handle_task_mi) may push on Bus.tasks
\* while it runs: nothing, or one task with some delay
Spawns(kinds) ==
    {None} \cup
        {s \in [tag : {"Some"}, kind : kinds, delay : 0 .. MaxDelay] :
            CanCreate(cycle + s.delay)}

\* Bus.tasks after such a handler has run
Enqueue(q, s, by, parent) ==
    IF s = None THEN q
    ELSE Append(q, Task(s.kind, cycle + s.delay, by, parent))

\* Vec::swap_remove(idx) in the place of Vec::remove(idx): the last entry
\* takes the place of the one removed
RemoveSwap(q, i) ==
    IF i + 1 = Len(q) THEN SubSeq(q, 1, i)
    ELSE SubSeq(q, 1, i) \o <<q[Len(q)]>> \o SubSeq(q, i + 2, Len(q) - 1)

\* Vec::pop() in the place of Vec::remove(idx): the last entry goes
RemoveLast(q, i) == SubSeq(q, 1, Len(q) - 1)

\* Vec::remove(idx): the entries behind idx shift down by one
Remove(q, i) == SubSeq(q, 1, i) \o SubSeq(q, i + 2, Len(q))

\* the test made against the cycle the step will end with
EligibleEarly(e) == e.target_cycle <= cycle + 1

\* the test with < in the place of <=
EligibleStrict(e) == e.target_cycle < cycle

\* a drain that passes over the entries pushed while it runs
EligibleNoCascade(e) ==
    e.target_cycle <= cycle /\ ~(e.by = "task" /\ e.born = cycle)

\* the test of drain_tasks on the entry under the cursor
Eligible(e) == e.target_cycle <= cycle

\* the match with the field of the SetMirrorEnabled arm copied from the arm
\* above it
ArmCopied(kind) ==
    CASE kind.tag = "Nand" -> [fn |-> "handle_task_nand", args |-> <<kind.x>>]
      [] kind.tag = "Aes" -> [fn |-> "handle_task_aes", args |-> <<kind.x>>]
      [] kind.tag = "Sha" -> [fn |-> "handle_task_sha", args |-> <<kind.x>>]
      [] kind.tag = "Mi" ->
            [fn |-> "handle_task_mi", args |-> <<kind.kind, kind.data>>]
      [] kind.tag = "SetRomDisabled" ->
            [fn |-> "rom_disabled", args |-> <<kind.x>>]
      [] kind.tag = "SetMirrorEnabled" ->
            [fn |-> "rom_disabled", args |-> <<kind.x>>]

\* the arm of the match in drain_tasks: the handler called with the
\* payload, or the field assigned
Arm(kind) ==
    CASE kind.tag = "Nand" -> [fn |-> "handle_task_nand", args |-> <<kind.x>>]
      [] kind.tag = "Aes" -> [fn |-> "handle_task_aes", args |-> <<kind.x>>]
      [] kind.tag = "Sha" -> [fn |-> "handle_task_sha", args |-> <<kind.x>>]
      [] kind.tag = "Mi" ->
            [fn |-> "handle_task_mi", args |-> <<kind.kind, kind.data>>]
      [] kind.tag = "SetRomDisabled" ->
            [fn |-> "rom_disabled", args |-> <<kind.x>>]
      [] kind.tag = "SetMirrorEnabled" ->
            [fn |-> "mirror_enabled", args |-> <<kind.x>>]

IsAssign(arm) == arm.fn \in {"rom_disabled", "mirror_enabled"}

\* step with the test whether the queue is empty made before
\* handle_step_hlwd
step_test_first(cpu_cycle, spawn) ==
    /\ pc = "idle"
    /\ cycle < MaxCycle
    /\ pre' = BusFields
    /\ fired' = <<>>
    /\ calls' = <<[fn |-> "handle_step_hlwd", args |-> <<cpu_cycle>>]>>
    /\ tasks' = Enqueue(tasks, spawn, "tick", -1)
    /\ op' = [name |-> "step", cpu_cycle |-> cpu_cycle, q0 |-> tasks']
    /\ nextId' = IF spawn = None THEN nextId ELSE nextId + 1
    /\ IF tasks # <<>>
       THEN pc' = "drain" /\ idx' = 0
       ELSE pc' = "inc" /\ idx' = idx
    /\ UNCHANGED <<cycle, rom_disabled, mirror_enabled, done>>

\* fn step(&mut self, cpu_cycle): handle_step_hlwd, then the test whether
\* the queue is empty; op.q0 is the queue with which the drain starts
step(cpu_cycle, spawn) ==
    /\ pc = "idle"
    /\ cycle < MaxCycle
    /\ pre' = BusFields
    /\ fired' = <<>>
    /\ calls' = <<[fn |-> "handle_step_hlwd", args |-> <<cpu_cycle>>]>>
    /\ tasks' = Enqueue(tasks, spawn, "tick", -1)
    /\ op' = [name |-> "step", cpu_cycle |-> cpu_cycle, q0 |-> tasks']
    /\ nextId' = IF spawn = None THEN nextId ELSE nextId + 1
    /\ IF tasks' # <<>>
       THEN pc' = "drain" /\ idx' = 0
       ELSE pc' = "inc" /\ idx' = idx
    /\ UNCHANGED <<cycle, rom_disabled, mirror_enabled, done>>

\* the entry read in place (self.tasks[idx]) and the cursor advanced: the
\* entry is executed and stays in the queue
drain_fire_keep(spawn) ==
    /\ pc = "drain"
    /\ idx # Len(tasks)
    /\ Eligible(tasks[idx + 1])
    /\ LET task == tasks[idx + 1]
           arm == Arm(task.kind)
       IN  /\ fired' = Append(fired, [task |-> task, at |-> cycle, arm |-> arm])
           /\ done' = done \cup {task.id}
           /\ IF IsAssign(arm)
              THEN /\ spawn = None
                   /\ tasks' = tasks
                   /\ rom_disabled' =
                        IF arm.fn = "rom_disabled" THEN arm.args[1]
                        ELSE rom_disabled
                   /\ mirror_enabled' =
                        IF arm.fn = "mirror_enabled" THEN arm.args[1]
                        ELSE mirror_enabled
                   /\ UNCHANGED <<calls, nextId>>
              ELSE /\ calls' = Append(calls, arm)
                   /\ tasks' = Enqueue(tasks, spawn, "task", task.id)
                   /\ nextId' = IF spawn = None THEN nextId ELSE nextId + 1
                   /\ UNCHANGED <<rom_disabled, mirror_enabled>>
    /\ idx' = idx + 1
    /\ UNCHANGED <<cycle, pc, op, pre>>

\* drain_tasks, one turn of the loop with the entry under the cursor
\* eligible: it is removed and executed, the cursor stays
drain_fire(spawn) ==
    /\ pc = "drain"
    /\ idx # Len(tasks)
    /\ Eligible(tasks[idx + 1])
    /\ LET task == tasks[idx + 1]
           arm == Arm(task.kind)
       IN  /\ fired' = Append(fired, [task |-> task, at |-> cycle, arm |-> arm])
           /\ done' = done \cup {task.id}
           /\ IF IsAssign(arm)
              THEN /\ spawn = None
                   /\ tasks' = Remove(tasks, idx)
                   /\ rom_disabled' =
                        IF arm.fn = "rom_disabled" THEN arm.args[1]
                        ELSE rom_disabled
                   /\ mirror_enabled' =
                        IF arm.fn = "mirror_enabled" THEN arm.args[1]
                        ELSE mirror_enabled
                   /\ UNCHANGED <<calls, nextId>>
              ELSE /\ calls' = Append(calls, arm)
                   /\ tasks' = Enqueue(Remove(tasks, idx), spawn, "task", task.id)
                   /\ nextId' = IF spawn = None THEN nextId ELSE nextId + 1
                   /\ UNCHANGED <<rom_disabled, mirror_enabled>>
    /\ UNCHANGED <<cycle, pc, idx, op, pre>>

\* Bus.tasks after a handler outside mmio.rs has pushed the task it was
\* called for once more, due at once (a completion handler that re-arms
\* itself); the new entry is given the identity of the one executed
Rearm(q, task) ==
    Append(q, [task EXCEPT !.target_cycle = cycle, !.by = "again"])

\* the logs of a call hold a record that repeats an earlier one once
Logged(log, r) ==
    IF \E j \in DOMAIN log : log[j] = r THEN log ELSE Append(log, r)

\* drain_tasks, one turn of the loop with the entry under the cursor
\* eligible, in which the handler pushes the task again
drain_rearm ==
    /\ pc = "drain"
    /\ idx # Len(tasks)
    /\ Eligible(tasks[idx + 1])
    /\ LET task == tasks[idx + 1]
           arm == Arm(task.kind)
       IN  /\ ~IsAssign(arm)
           /\ tasks' = Rearm(Remove(tasks, idx), task)
           /\ fired' = Logged(fired, [task |-> task, at |-> cycle, arm |-> arm])
           /\ calls' = Logged(calls, arm)
           /\ done' = done \cup {task.id}
    /\ UNCHANGED <<cycle, rom_disabled, mirror_enabled, pc, idx, op, pre,
                   nextId>>

\* the entry removed before the test: an entry that is not eligible is
\* dropped
drain_skip_drop ==
    /\ pc = "drain"
    /\ idx # Len(tasks)
    /\ ~Eligible(tasks[idx + 1])
    /\ tasks' = Remove(tasks, idx)
    /\ UNCHANGED <<cycle, rom_disabled, mirror_enabled, pc, idx, op, pre,
                   calls, fired, nextId, done>>

\* the else branch leaving the loop: the scan ends at the first entry that
\* is not eligible
drain_skip_break ==
    /\ pc = "drain"
    /\ idx # Len(tasks)
    /\ ~Eligible(tasks[idx + 1])
    /\ pc' = "inc"
    /\ UNCHANGED <<cycle, rom_disabled, mirror_enabled, tasks, idx, op, pre,
                   calls, fired, nextId, done>>

\* the else branch without idx += 1
drain_skip_stay ==
    /\ pc = "drain"
    /\ idx # Len(tasks)
    /\ ~Eligible(tasks[idx + 1])
    /\ UNCHANGED vars

\* drain_tasks, one turn of the loop with the entry under the cursor not
\* eligible: the cursor moves on
drain_skip ==
    /\ pc = "drain"
    /\ idx # Len(tasks)
    /\ ~Eligible(tasks[idx + 1])
    /\ idx' = idx + 1
    /\ UNCHANGED <<cycle, rom_disabled, mirror_enabled, tasks, pc, op, pre,
                   calls, fired, nextId, done>>

\* a loop over the positions the queue had when the drain started: it ends
\* once that many entries have been visited
drain_exit_first_pass ==
    /\ pc = "drain"
    /\ idx + Len(fired) >= Len(op.q0)
    /\ pc' = "inc"
    /\ UNCHANGED <<cycle, rom_disabled, mirror_enabled, tasks, idx, op, pre,
                   calls, fired, nextId, done>>

\* drain_tasks: the cursor has reached the end of the queue
drain_exit ==
    /\ pc = "drain"
    /\ idx = Len(tasks)
    /\ pc' = "inc"
    /\ UNCHANGED <<cycle, rom_disabled, mirror_enabled, tasks, idx, op, pre,
                   calls, fired, nextId, done>>

\* the counter advanced by two
step_inc_by_two ==
    /\ pc = "inc"
    /\ cycle' = cycle + 2
    /\ pc' = "ret"
    /\ UNCHANGED <<rom_disabled, mirror_enabled, tasks, idx, op, pre, calls,
                   fired, nextId, done>>

\* the increment moved into the if of step: no increment when the queue was
\* empty
step_inc_in_if ==
    /\ pc = "inc"
    /\ cycle' = IF op.q0 # <<>> THEN cycle + 1 ELSE cycle
    /\ pc' = "ret"
    /\ UNCHANGED <<rom_disabled, mirror_enabled, tasks, idx, op, pre, calls,
                   fired, nextId, done>>

\* step: self.cycle += 1, and step returns
step_inc ==
    /\ pc = "inc"
    /\ cycle' = cycle + 1
    /\ pc' = "ret"
    /\ UNCHANGED <<rom_disabled, mirror_enabled, tasks, idx, op, pre, calls,
                   fired, nextId, done>>

\* the call has returned to its caller; the record of the call is dropped
Return ==
    /\ pc = "ret"
    /\ pc' = "idle"
    /\ idx' = 0
    /\ op' = NoOp
    /\ pre' = BusFields
    /\ calls' = <<>>
    /\ fired' = <<>>
    /\ UNCHANGED <<cycle, rom_disabled, mirror_enabled, tasks, nextId, done>>

\* ------------------------------------------------------------------ specifications
\* the calls of the CPU/MMU and of the driver loop, over given sets of
\* arguments and of answers of the code outside mmio.rs
Calls(devs, offs, widths, msgs, kinds, cpus, spawned) ==
    \/ /\ pc = "idle"
       /\ \E dev \in devs, off \in offs, width \in widths :
            do_mmio_read(dev, off, width)
    \/ /\ pc = "idle"
       /\ \E dev \in devs, off \in offs, msg \in msgs :
            \E reply \in {None} \cup {t \in kinds : CanCreate(cycle + Delay(t))} :
                do_mmio_write(dev, off, msg, reply)
    \/ /\ pc = "idle"
       /\ \E cpu_cycle \in cpus, spawn \in Spawns(spawned) :
            step(cpu_cycle, spawn)
    \/ /\ pc = "drain"
       /\ \E spawn \in Spawns(spawned) : drain_fire(spawn)
    \/ drain_skip
    \/ drain_exit
    \/ step_inc
    \/ Return

\* the scheduler: two devices; a write may report any of these tasks
SchedKinds ==
    {[tag |-> "Nand", x |-> 0], [tag |-> "Nand", x |-> 1],
     [tag |-> "Aes", x |-> 0], [tag |-> "Sha", x |-> 1],
     [tag |-> "Mi", kind |-> 0, data |-> 1],
     [tag |-> "SetRomDisabled", x |-> TRUE],
     [tag |-> "SetRomDisabled", x |-> FALSE],
     [tag |-> "SetMirrorEnabled", x |-> TRUE],
     [tag |-> "SetMirrorEnabled", x |-> FALSE]}

\* and a handler outside mmio.rs may push any of these
SpawnKinds ==
    {[tag |-> "Aes", x |-> 1], [tag |-> "SetMirrorEnabled", x |-> TRUE]}

Next ==
    Calls({"Nand", "Mi"}, {4}, {"H", "W"},
          [tag : {"Half", "Word"}, val : {1}], SchedKinds, CpuCycles,
          SpawnKinds)

Spec == Init /\ [][Next]_vars

\* The scheduler under its driver: the driver loop calls step again and
\* again, between reads and writes, and a call of step, once made, runs on
\* until it returns.
LiveKinds ==
    {[tag |-> "Nand", x |-> 0], [tag |-> "SetRomDisabled", x |-> TRUE]}

LiveSpawnKinds == {[tag |-> "Aes", x |-> 1]}

NextLive ==
    Calls({"Nand"}, {4}, {"H", "W"}, [tag : {"Half", "Word"}, val : {1}],
          LiveKinds, {0}, LiveSpawnKinds)

StepCalled == \E spawn \in Spawns(LiveSpawnKinds) : step(0, spawn)

StepRuns ==
    \/ \E spawn \in Spawns(LiveSpawnKinds) : drain_fire(spawn)
    \/ drain_skip
    \/ drain_exit
    \/ step_inc
    \/ Return

SpecLive ==
    Init /\ [][NextLive]_vars /\ SF_vars(StepCalled) /\ WF_vars(StepRuns)

\* The same, with task handlers that may re-arm themselves: nothing limits
\* how often a handler pushes a task that is due at once.
CascadeKinds == {[tag |-> "Nand", x |-> 0]}

NextCascade ==
    \/ Calls({"Nand"}, {4}, {"W"}, [tag : {"Word"}, val : {1}], CascadeKinds,
             {0}, LiveSpawnKinds)
    \/ drain_rearm

RunsCascade == StepRuns \/ drain_rearm

SpecCascade ==
    Init /\ [][NextCascade]_vars /\ SF_vars(StepCalled) /\ WF_vars(RunsCascade)

\* the dispatch: every device, width, offset and value
MmioKinds ==
    {[tag |-> "Nand", x |-> 1], [tag |-> "SetRomDisabled", x |-> TRUE]}

NextMmio ==
    Calls(IoDevice, Offsets, BusWidth, BusPacket, MmioKinds, {0},
          {[tag |-> "Nand", x |-> 0]})

SpecMmio == Init /\ [][NextMmio]_vars

\* ------------------------------------------------------------------ claims
\* the call in progress is an access, and the pair it carries
IsAccess == op.name \in {"read", "write"}
OpWidth == IF op.name = "read" THEN op.width ELSE WidthOf(op.msg.tag)

\* C1: a read or write dispatch of a (width, device) pair outside the defined
\* set panics, and at the panic no device handler has been called, no task
\* has been pushed, and cycle, rom_disabled and mirror_enabled are as they
\* were when the call was entered.
C1_UndefinedPairPanics ==
    (IsAccess /\ ~DefinedPair(OpWidth, op.dev)) =>
        /\ pc = "panic"
        /\ calls = <<>>
        /\ BusFields = pre

C1_Witness ==
    /\ pc = "panic"
    /\ op.name = "read"
    /\ op.width = "H"
    /\ op.dev = "Exi"
    /\ cycle > 0
    /\ tasks # <<>>
    /\ rom_disabled

\* C2: a read or write dispatch of a defined (width, device) pair calls the
\* read or write handler of the device model the device id names, once,
\* with the caller's offset (and value), and calls no other handler.
C2_DefinedPairReachesItsModel ==
    (IsAccess /\ DefinedPair(OpWidth, op.dev)) =>
        /\ pc = "ret"
        /\ Len(calls) = 1
        /\ calls[1].model = ModelOf[op.dev]
        /\ calls[1].fn = op.name
        /\ calls[1].off = op.off
        /\ op.name = "write" => calls[1].val = op.msg.val

C2_Witness ==
    /\ pc = "ret"
    /\ op.name = "write"
    /\ op.dev = "Exi"
    /\ op.off = 4
    /\ op.msg = [tag |-> "Word", val |-> 1]
    /\ calls[1].model = "hlwd.exi"

\* the call in progress is step; it has returned
InStep == op.name = "step"
StepReturned == InStep /\ pc = "ret"

Range(q) == {q[i] : i \in DOMAIN q}
FiredTasks == {fired[j].task : j \in DOMAIN fired}
TimesFired(e) == Cardinality({j \in DOMAIN fired : fired[j].task = e})

\* what executing a task of a kind is to do: the handler to call, or the
\* flag to assign, and with what
HandlerOf ==
    [Nand |-> "handle_task_nand", Aes |-> "handle_task_aes",
     Sha |-> "handle_task_sha", Mi |-> "handle_task_mi",
     SetRomDisabled |-> "rom_disabled", SetMirrorEnabled |-> "mirror_enabled"]

Expected(kind) ==
    [fn |-> HandlerOf[kind.tag],
     args |-> IF kind.tag = "Mi" THEN <<kind.kind, kind.data>> ELSE <<kind.x>>]

\* C3: a task scheduled with delay 0 (in the queue with target_cycle <= cycle
\* when step is called) has, when that step returns, been executed exactly
\* once by the arm of its kind with its payload; and when every task of that
\* step was scheduled with delay 0, the queue is empty when step returns.
C3_ZeroDelayTaskRunsOnceInNextStep ==
    StepReturned =>
        /\ \A i \in DOMAIN pre.tasks :
            pre.tasks[i].target_cycle <= pre.cycle =>
                /\ TimesFired(pre.tasks[i]) = 1
                /\ \A j \in DOMAIN fired :
                    fired[j].task = pre.tasks[i] =>
                        fired[j].arm = Expected(pre.tasks[i].kind)
        /\ (\A e \in Range(tasks) \cup FiredTasks \cup Range(pre.tasks) :
                e.target_cycle = e.born)
            => tasks = <<>>

C3_Witness ==
    /\ StepReturned
    /\ Len(pre.tasks) = 1
    /\ pre.tasks[1].by = "write"
    /\ pre.tasks[1].kind = [tag |-> "Nand", x |-> 1]
    /\ Len(fired) = 1
    /\ calls[2] = [fn |-> "handle_task_nand", args |-> <<1>>]
    /\ Len(calls) = 2
    /\ tasks = <<>>

\* C4: a task pushed by the handler of a task that the drain executes goes
\* to the tail of the queue (the queue stays in the order of creation); when
\* its target_cycle <= the cycle it is executed before that step returns,
\* after the task whose handler pushed it; so are the tasks it pushes in its
\* turn.
C4_SameStepCascading ==
    /\ \A i, j \in DOMAIN tasks : i < j => tasks[i].id < tasks[j].id
    /\ StepReturned =>
        /\ \A id \in pre.nextId .. nextId - 1 :
            \/ \E j \in DOMAIN fired : fired[j].task.id = id
            \/ \E k \in DOMAIN tasks :
                tasks[k].id = id /\ tasks[k].target_cycle > pre.cycle
        /\ \A j \in DOMAIN fired :
            (fired[j].task.by = "task" /\ fired[j].task.born = pre.cycle) =>
                \E i \in 1 .. j - 1 : fired[i].task.id = fired[j].task.parent

C4_Witness ==
    /\ StepReturned
    /\ Len(fired) = 3
    /\ fired[1].task.by = "write"
    /\ fired[2].task.parent = fired[1].task.id
    /\ fired[3].task.parent = fired[2].task.id
    /\ fired[3].task.born = pre.cycle
    /\ pre.cycle > 0

StillQueued(e) == e \in Range(tasks)
QueuedAtStart(e) == e \in Range(op.q0)

\* C5: while step runs, an entry with which the drain started and whose
\* target_cycle is greater than the cycle is still in the queue, unchanged,
\* and has not been executed; and the entries that the queue at the start
\* of the drain and the queue now have in common are in the same order in
\* both.
C5_DrainPreservesOrder ==
    InStep =>
        /\ \A i \in DOMAIN op.q0 :
            op.q0[i].target_cycle > pre.cycle =>
                /\ op.q0[i] \in Range(tasks)
                /\ op.q0[i].id \notin {e.id : e \in FiredTasks}
        /\ \A j \in DOMAIN fired : fired[j].task.target_cycle <= pre.cycle
        /\ SelectSeq(op.q0, StillQueued) = SelectSeq(tasks, QueuedAtStart)

C5_Witness ==
    /\ StepReturned
    /\ Len(op.q0) = 3
    /\ op.q0[1].target_cycle > pre.cycle
    /\ op.q0[2].target_cycle <= pre.cycle
    /\ op.q0[3].target_cycle > pre.cycle
    /\ tasks = <<op.q0[1], op.q0[3]>>
    /\ FiredTasks = {op.q0[2]}

\* C6: the cycle counter starts at 0; when step returns it is one more than
\* when step was called, whatever was drained and whatever cpu_cycle was;
\* at every other point (in a read or write dispatch, while tasks are
\* executed) it is what it was when the call was entered.
C6_CycleAdvancesByOnePerStep ==
    /\ cycle = 0
    /\ [](cycle = pre.cycle + (IF StepReturned THEN 1 ELSE 0))

C6_Witness ==
    /\ StepReturned
    /\ op.cpu_cycle = 7
    /\ Len(fired) = 2
    /\ fired[2].task.parent = fired[1].task.id
    /\ pre.cycle = 1
    /\ cycle = 2

\* a step of the model in which the drain executes an entry, and that entry
Executes == Len(fired') = Len(fired) + 1
Executed == fired'[Len(fired')].task
NotExecuted(e) == e # Executed

\* what C7 asks of such a step
C7_FlagTaskStep ==
    (Executes /\ Executed.kind.tag \in {"SetRomDisabled", "SetMirrorEnabled"}) =>
        /\ rom_disabled' =
            IF Executed.kind.tag = "SetRomDisabled" THEN Executed.kind.x
            ELSE rom_disabled
        /\ mirror_enabled' =
            IF Executed.kind.tag = "SetMirrorEnabled" THEN Executed.kind.x
            ELSE mirror_enabled
        /\ cycle' = cycle
        /\ calls' = calls
        /\ nextId' = nextId
        /\ Executed \in Range(tasks)
        /\ tasks' = SelectSeq(tasks, NotExecuted)

\* C7: the execution of a SetRomDisabled(x) task sets rom_disabled to x, that
\* of a SetMirrorEnabled(x) task sets mirror_enabled to x; either leaves the
\* other flag and the cycle as they were, calls no handler, pushes no task,
\* and takes from the queue that one entry and no other.
C7_FlagTasksSetOnlyTheirFlag == [][C7_FlagTaskStep]_vars

C7_Witness ==
    /\ pc = "drain"
    /\ fired # <<>>
    /\ fired[Len(fired)].task.kind = [tag |-> "SetRomDisabled", x |-> FALSE]
    /\ pre.rom_disabled
    /\ ~rom_disabled
    /\ Len(tasks) = 1
    /\ tasks[1].id < fired[Len(fired)].task.id

\* C8: when a write dispatch returns and the device reported a task, the
\* queue is the queue at entry with one entry more at the tail, which holds
\* that task with target_cycle equal to the cycle; nothing has been
\* executed.  When the device reported no task the queue is as at entry.
C8_WriteAppendsOneEntry ==
    (op.name = "write" /\ pc = "ret") =>
        /\ fired = <<>>
        /\ Len(calls) = 1
        /\ rom_disabled = pre.rom_disabled
        /\ mirror_enabled = pre.mirror_enabled
        /\ IF calls[1].ret = None
           THEN tasks = pre.tasks
           ELSE /\ Len(tasks) = Len(pre.tasks) + 1
                /\ SubSeq(tasks, 1, Len(pre.tasks)) = pre.tasks
                /\ tasks[Len(tasks)].kind = calls[1].ret
                /\ tasks[Len(tasks)].target_cycle = pre.cycle
                /\ tasks[Len(tasks)].target_cycle >= tasks[Len(tasks)].born

C8_Witness ==
    /\ op.name = "write"
    /\ pc = "ret"
    /\ calls[1].ret = [tag |-> "Mi", kind |-> 0, data |-> 1]
    /\ Len(pre.tasks) = 2
    /\ Len(tasks) = 3
    /\ tasks[3].target_cycle = 1
    /\ tasks[1].target_cycle = 2

\* C10: in a step handle_step_hlwd is called first and once, before any
\* task is executed; every task is executed at the cycle value step was
\* called with, the increment coming after the drain; and a task that
\* handle_step_hlwd pushed with zero delay has been executed when that step
\* returns.
C10_PhasesOfStep ==
    InStep =>
        /\ calls[1] = [fn |-> "handle_step_hlwd", args |-> <<op.cpu_cycle>>]
        /\ \A j \in 2 .. Len(calls) : calls[j].fn # "handle_step_hlwd"
        /\ \A j \in DOMAIN fired :
            /\ fired[j].at = pre.cycle
            /\ fired[j].task.target_cycle <= pre.cycle
        /\ pc # "ret" => cycle = pre.cycle
        /\ pc = "ret" =>
            /\ cycle = pre.cycle + 1
            /\ \A i \in DOMAIN op.q0 :
                (/\ op.q0[i].by = "tick"
                 /\ op.q0[i].born = pre.cycle
                 /\ op.q0[i].target_cycle = pre.cycle)
                    => op.q0[i] \in FiredTasks

C10_Witness ==
    /\ StepReturned
    /\ pre.tasks = <<>>
    /\ Len(op.q0) = 1
    /\ op.q0[1].by = "tick"
    /\ op.q0[1].target_cycle = pre.cycle
    /\ FiredTasks = {op.q0[1]}
    /\ pre.cycle = 1

Queued(id) == \E k \in DOMAIN tasks : tasks[k].id = id

\* C9: with the driver calling step again and again and every step
\* returning, a task that is in the queue is eventually executed, unless the
\* process panics first; no other entry and no call keeps it from that.
C9_QueuedTaskEventuallyFires ==
    \A id \in 0 .. MaxTasks - 1 :
        Queued(id) ~> (id \in done \/ pc = "panic")

C9_Witness ==
    /\ StepReturned
    /\ pre.cycle = 2
    /\ pre.tasks # <<>>
    /\ pre.tasks[1].id = 0
    /\ pre.tasks[1].born = 0
    /\ pre.tasks[1].target_cycle = 2
    /\ fired # <<>>
    /\ fired[1].task = pre.tasks[1]
    /\ done = {0, 1, 2}

\* C11: no task fires early.  An entry is executed only at a cycle that has
\* reached its target_cycle, so a task created at cycle n with delay d > 0 is
\* executed in no step before the one that runs at cycle n + d; and an
\* entry still in the queue whose target_cycle lies ahead has not been
\* executed.
C11_NoTaskFiresEarly ==
    /\ \A j \in DOMAIN fired :
        /\ fired[j].at = pre.cycle
        /\ fired[j].task.target_cycle <= fired[j].at
        /\ fired[j].task.target_cycle > fired[j].task.born =>
                fired[j].at > fired[j].task.born
    /\ \A k \in DOMAIN tasks :
        tasks[k].target_cycle > cycle => tasks[k].id \notin done

C11_Witness ==
    /\ StepReturned
    /\ Len(fired) = 1
    /\ fired[1].task.born = 0
    /\ fired[1].task.target_cycle = 2
    /\ fired[1].at = 2
    /\ pre.cycle = 2
    /\ pre.tasks = <<fired[1].task>>
    /\ done = {fired[1].task.id}
    /\ tasks = <<>>

DrainReturned == InStep /\ pc \in {"inc", "ret"}

\* C13: when a drain has returned the queue holds no entry with
\* target_cycle <= the cycle of the drain; every entry that was in the queue
\* and eligible when the drain started has been executed, wherever it stood
\* (also behind entries that were not eligible); and every entry pushed
\* during the step has been executed unless its target_cycle lies ahead.
C13_DrainLeavesNothingEligible ==
    DrainReturned =>
        /\ \A k \in DOMAIN tasks : tasks[k].target_cycle > pre.cycle
        /\ \A i \in DOMAIN op.q0 :
            op.q0[i].target_cycle <= pre.cycle =>
                /\ op.q0[i] \in FiredTasks
                /\ op.q0[i].id \in done
        /\ \A id \in pre.nextId .. nextId - 1 :
            id \notin done => \E k \in DOMAIN tasks : tasks[k].id = id

C13_Witness ==
    /\ StepReturned
    /\ Len(op.q0) = 2
    /\ op.q0[1].target_cycle > pre.cycle
    /\ op.q0[2].target_cycle <= pre.cycle
    /\ Len(fired) = 2
    /\ fired[1].task = op.q0[2]
    /\ fired[2].task.parent = op.q0[2].id
    /\ tasks = <<op.q0[1]>>

\* the entries executed by the call in progress, in the order of execution
FiredSeq == [j \in DOMAIN fired |-> fired[j].task]
IsFired(e) == e \in FiredTasks

\* C14: within one drain the entries are executed in the order in which
\* they stand in the queue, whatever their target_cycle: those with which
\* the drain started in their order in that queue, and those appended during
\* the drain after every entry that was in the queue and eligible before, in
\* the order in which they were appended.
C14_FiresInQueueOrder ==
    InStep =>
        /\ SelectSeq(FiredSeq, QueuedAtStart) = SelectSeq(op.q0, IsFired)
        /\ \A i, j \in DOMAIN fired :
            i < j => fired[i].task.id < fired[j].task.id
        /\ \A j \in DOMAIN fired :
            ~QueuedAtStart(fired[j].task) =>
                \A i \in DOMAIN op.q0 :
                    op.q0[i].target_cycle <= pre.cycle =>
                        \E k \in 1 .. j - 1 : fired[k].task = op.q0[i]

C14_Witness ==
    /\ StepReturned
    /\ Len(op.q0) = 2
    /\ op.q0[1].born < op.q0[2].born
    /\ Len(fired) = 3
    /\ fired[1].task = op.q0[1]
    /\ fired[2].task = op.q0[2]
    /\ fired[3].task.parent = op.q0[1].id
    /\ tasks = <<>>

\* The alternative drain: take all entries that are eligible out of the
\* queue, keeping the order of the rest, execute them in queue order, and
\* repeat until no entry is eligible.  The handlers behave as they did in
\* the call in progress: PushedBy(e) is what the handler of e pushed.
Due(e) == e.target_cycle <= pre.cycle
NotDue(e) == ~Due(e)

RECURSIVE SortById(_)
SortById(S) ==
    IF S = {} THEN <<>>
    ELSE LET m == CHOOSE x \in S : \A y \in S : x.id <= y.id
         IN  <<m>> \o SortById(S \ {m})

PushedBy(e) ==
    SortById({x \in Range(tasks) \cup FiredTasks :
                x.by = "task" /\ x.parent = e.id /\ x.born = pre.cycle})

RECURSIVE PushesOf(_)
PushesOf(batch) ==
    IF batch = <<>> THEN <<>>
    ELSE PushedBy(Head(batch)) \o PushesOf(Tail(batch))

RECURSIVE FilterDrain(_, _)
FilterDrain(q, log) ==
    LET batch == SelectSeq(q, Due)
    IN  IF batch = <<>> THEN [queue |-> q, fired |-> log]
        ELSE FilterDrain(SelectSeq(q, NotDue) \o PushesOf(batch),
                         log \o batch)

\* the value of a flag after the flag tasks of a sequence of executed
\* entries, and the handler calls of that sequence
RECURSIVE FlagAfter(_, _, _)
FlagAfter(tag, log, v) ==
    IF log = <<>> THEN v
    ELSE FlagAfter(tag, Tail(log),
                   IF Head(log).kind.tag = tag THEN Head(log).kind.x ELSE v)

RECURSIVE CallsOf(_)
CallsOf(log) ==
    IF log = <<>> THEN <<>>
    ELSE (IF Head(log).kind.tag \in {"SetRomDisabled", "SetMirrorEnabled"}
          THEN <<>> ELSE <<Expected(Head(log).kind)>>) \o CallsOf(Tail(log))

\* C15: when a drain has returned, the entries it executed and their order,
\* the queue it left, the two flags and the handler calls it made are those
\* of the alternative drain run on the queue the drain started with, with
\* handlers that append the same tasks.
C15_CursorDrainEqualsFilterDrain ==
    DrainReturned =>
        LET alt == FilterDrain(op.q0, <<>>)
        IN  /\ alt.fired = FiredSeq
            /\ alt.queue = tasks
            /\ FlagAfter("SetRomDisabled", alt.fired, pre.rom_disabled)
                    = rom_disabled
            /\ FlagAfter("SetMirrorEnabled", alt.fired, pre.mirror_enabled)
                    = mirror_enabled
            /\ CallsOf(alt.fired) = Tail(calls)

C15_Witness ==
    /\ StepReturned
    /\ Len(op.q0) = 2
    /\ op.q0[1].target_cycle > pre.cycle
    /\ op.q0[2].kind.tag = "Nand"
    /\ Len(fired) = 2
    /\ fired[1].task = op.q0[2]
    /\ fired[2].task.kind = [tag |-> "SetMirrorEnabled", x |-> TRUE]
    /\ ~pre.mirror_enabled
    /\ mirror_enabled
    /\ tasks = <<op.q0[1]>>

\* what C16 asks of a step of the model
C16_FlagStep ==
    /\ rom_disabled' # rom_disabled =>
            /\ InStep /\ pc = "drain"
            /\ Executes /\ Executed.kind.tag = "SetRomDisabled"
    /\ mirror_enabled' # mirror_enabled =>
            /\ InStep /\ pc = "drain"
            /\ Executes /\ Executed.kind.tag = "SetMirrorEnabled"
    /\ (Executes /\ Executed.kind.tag \in {"Nand", "Aes", "Sha", "Mi"}) =>
            /\ rom_disabled' = rom_disabled
            /\ mirror_enabled' = mirror_enabled
    /\ op'.name \in {"read", "write"} =>
            /\ rom_disabled' = pre'.rom_disabled
            /\ mirror_enabled' = pre'.mirror_enabled

\* C16: rom_disabled and mirror_enabled change only in the turn of the
\* drain that executes a SetRomDisabled, respectively SetMirrorEnabled,
\* task; a read or write dispatch leaves both as they were at entry, also a
\* write whose device reports a flag task; and the turn that executes a
\* Nand, Aes, Sha or Mi task assigns neither.
C16_FlagsChangeOnlyByFlagTasks == [][C16_FlagStep]_vars

C16_Witness ==
    /\ op.name = "write"
    /\ pc = "ret"
    /\ calls[1].ret = [tag |-> "SetMirrorEnabled", x |-> FALSE]
    /\ mirror_enabled
    /\ tasks[Len(tasks)].kind = [tag |-> "SetMirrorEnabled", x |-> FALSE]
    /\ cycle = 2

\* the ways in which a step of the model may change the queue: a write
\* dispatch appends the task its device reported
WriteAppends ==
    /\ pc = "idle"
    /\ op'.name = "write"
    /\ calls'[1].ret # None
    /\ tasks' = Append(tasks, tasks'[Len(tasks')])
    /\ tasks'[Len(tasks')].kind = calls'[1].ret
    /\ tasks'[Len(tasks')].by = "write"

\* handle_step_hlwd, called by step, appends a task
TickAppends ==
    /\ pc = "idle"
    /\ op'.name = "step"
    /\ fired' = <<>>
    /\ tasks' = Append(tasks, tasks'[Len(tasks')])
    /\ tasks'[Len(tasks')].by = "tick"

\* the drain removes the entry it executes, which is eligible
DrainRemoves ==
    /\ op.name = "step"
    /\ pc = "drain"
    /\ Executes
    /\ Executed \in Range(tasks)
    /\ Executed.target_cycle <= cycle
    /\ tasks' = SelectSeq(tasks, NotExecuted)

\* the same, and the handler of the executed task appends a task
DrainRemovesHandlerAppends ==
    /\ op.name = "step"
    /\ pc = "drain"
    /\ Executes
    /\ Executed \in Range(tasks)
    /\ Executed.target_cycle <= cycle
    /\ Executed.kind.tag \in {"Nand", "Aes", "Sha", "Mi"}
    /\ tasks' = Append(SelectSeq(tasks, NotExecuted), tasks'[Len(tasks')])
    /\ tasks'[Len(tasks')].parent = Executed.id

\* C17 as stated: the queue changes only by a write dispatch appending the
\* task its device reported, or by the drain inside step removing an
\* eligible entry.
C17_OnlyWritesAppend ==
    [][tasks' = tasks \/ WriteAppends \/ DrainRemoves]_vars

\* C17, amended: entries are appended, at the tail, only by a write dispatch
\* whose device reported a task or by a handler outside mmio.rs that step
\* runs (handle_step_hlwd, or the handler of a task the drain executes); a
\* read dispatch never appends; entries are removed only by the drain inside
\* step, one per turn, and only when eligible; nothing else adds, removes or
\* reorders entries.
C17_QueueLifecycle ==
    [][\/ tasks' = tasks
       \/ WriteAppends
       \/ TickAppends
       \/ DrainRemoves
       \/ DrainRemovesHandlerAppends]_vars

C17_Witness ==
    /\ StepReturned
    /\ Len(pre.tasks) = 1
    /\ pre.tasks[1].by = "write"
    /\ Len(op.q0) = 2
    /\ op.q0[2].by = "tick"
    /\ op.q0[2].target_cycle > pre.cycle
    /\ Len(fired) = 1
    /\ Len(tasks) = 2
    /\ tasks[1] = op.q0[2]
    /\ tasks[2].parent = pre.tasks[1].id

QueuedIds == {tasks[k].id : k \in DOMAIN tasks}

\* every task created is in the queue, at one position, or has been
\* executed, never both; no entry is executed twice by one call, and each is
\* executed by the arm of its kind with its payload
C18_State ==
    /\ QueuedIds \cup done = 0 .. nextId - 1
    /\ QueuedIds \cap done = {}
    /\ \A i, k \in DOMAIN tasks : tasks[i].id = tasks[k].id => i = k
    /\ \A i, j \in DOMAIN fired :
        fired[i].task.id = fired[j].task.id => i = j
    /\ \A j \in DOMAIN fired :
        /\ fired[j].task.id \in done
        /\ fired[j].arm = Expected(fired[j].task.kind)

\* an entry leaves the queue only in the turn that executes it, which is
\* its first execution and calls its handler once
C18_Step ==
    /\ QueuedIds \ {e.id : e \in Range(tasks')} # {} => Executes
    /\ Executes =>
        /\ Executed \in Range(tasks)
        /\ Executed.id \notin done
        /\ QueuedIds \ {e.id : e \in Range(tasks')} = {Executed.id}
        /\ fired'[Len(fired')].arm = Expected(Executed.kind)
        /\ calls' =
            IF Executed.kind.tag \in {"SetRomDisabled", "SetMirrorEnabled"}
            THEN calls ELSE Append(calls, Expected(Executed.kind))

\* C18: each scheduled task is executed at most once and is never lost.  The
\* drain takes an entry out of the queue in the turn that executes it;
\* every removal goes with exactly one execution of the action of the
\* entry's kind with the entry's payload; an entry that was removed is never
\* in the queue again and is never executed again, in that step or a later
\* one.
C18_ExecutedOnceNeverLost == []C18_State /\ [][C18_Step]_vars

C18_Witness ==
    /\ StepReturned
    /\ Len(fired) = 2
    /\ fired[1].task.kind = [tag |-> "Mi", kind |-> 0, data |-> 1]
    /\ calls[2] = [fn |-> "handle_task_mi", args |-> <<0, 1>>]
    /\ Len(calls) = 2
    /\ fired[2].task.kind = [tag |-> "SetRomDisabled", x |-> TRUE]
    /\ rom_disabled
    /\ done = {0, 1, 2}
    /\ pre.cycle = 1
    /\ tasks = <<>>

\* C19: no queued entry is ever overdue.  In every state, so between calls
\* and when step is entered, every entry of the queue has
\* target_cycle >= cycle; hence every entry the drain executes has
\* target_cycle equal to the cycle of that drain, and, the cycle never
\* decreasing, the entries are executed over a run in an order that is
\* non-decreasing in target_cycle.
C19_NoEntryOverdue ==
    /\ [](\A k \in DOMAIN tasks : tasks[k].target_cycle >= cycle)
    /\ [](\A j \in DOMAIN fired :
            /\ fired[j].task.target_cycle = fired[j].at
            /\ fired[j].at = pre.cycle
            /\ \A i \in 1 .. j :
                fired[i].task.target_cycle <= fired[j].task.target_cycle)
    /\ [][cycle' >= cycle /\ (Executes => Executed.target_cycle = cycle)]_vars

C19_Witness ==
    /\ StepReturned
    /\ pre.cycle = 2
    /\ Len(fired) = 2
    /\ fired[1].task.born = 0
    /\ fired[1].task.target_cycle = 2
    /\ fired[2].task.born = 1
    /\ fired[2].task.target_cycle = 2
    /\ tasks = <<>>
====
